---- MODULE Spec2Model ----
(***************************************************************************)
(* Verification model of the GuilanCEA portal client.                      *)
(*                                                                         *)
(*  Part I  : the Session Guard of ApiClient (frontend/src/lib/api.ts):    *)
(*            request / refreshAccessToken / onRefreshed, with one step    *)
(*            per stretch of code between two awaits.                      *)
(*  Part II : the register-and-pay flow of the event page                  *)
(*            (frontend/src/pages/EventDetail.tsx and the coupon dialog),  *)
(*            run against the admission / payment store described by the   *)
(*            specification (the backend is not part of the sources).      *)
(***************************************************************************)
EXTENDS Integers, Sequences, FiniteSets, TLC

\* ------------------------------------------------------------------------
\* Bounds
\* ------------------------------------------------------------------------
\* number of calls to the ApiClient that may be in flight together
NCalls == 3

\* total number of calls made over a run (a finished call frees its slot)
MaxStarts == 4

Calls == 1..NCalls

\* a refresh is named by the rank of the call that started it
RefreshIds == 1..MaxStarts

\* localStorage.getItem(...) returns null for a missing key
NoToken == 0

\* the token pair the session starts with
FirstToken == NoToken + 1

\* users of the store; the first one is the user of the event page
NUsers == 1

Users == 1..NUsers

PageUser == CHOOSE u \in Users : \A v \in Users : u <= v

\* runs of handleMainCTA / handleContinueFromModal that may overlap
NFlows == 2

Flows == 1..NFlows

\* total number of runs of the two handlers
MaxRuns == 2

\* number of times the event page is mounted
MaxLoads == 2

\* number of explicit cancellations a user may make
MaxCancels == 1
DeadlineRuns == 0     \* runs started before the registration deadline passes

\* number of times the payment-result page is opened
MaxOpens == 2

\* users that call register concurrently, and the register calls made
NAdmUsers == 3
MaxAttempts == 3

\* settle calls delivered by the gateway
MaxDeliveries == 3

\* number of Payment records the store may hold
MaxPayments == 2

\* event.capacity of the event under study
Capacity == 1

\* event.price of the event under study when it is not free (rial)
BasePrice == 20
MaxTime == 3
MaxSeats == 2

\* what the user may type into the coupon input ("" : nothing)
Codes == {"", "FULL"}

AdmUsers == 1..NAdmUsers

Attempts == 1..MaxAttempts

Deliveries == 1..MaxDeliveries

\* the two kinds of authenticated client calls:
\*   "request" : every method that delegates to ApiClient.request
\*   "upload"  : uploadProfilePicture / uploadGalleryImage (own fetch)
Kinds == {"request", "upload"}

VARIABLES
  \* ---- Part I: ApiClient --------------------------------------------
  isRefreshing,        \* api.ts:7
  refreshSubscribers,  \* api.ts:8   (sequence of waiting callbacks, by call)
  localStorage,        \* [access_token, refresh_token] -> token or NoToken
  pc,                  \* position of every call
  kind,                \* which client method made the call
  role,                \* "none" | "leader" | "follower"
  sent,                \* how many times the call's request was sent
  sentToken,           \* bearer token of the latest attempt
  outcome,             \* how the promise of the call settled
  leads,               \* the refresh a leader started (0: none)
  refreshState,        \* state of every refresh operation
  expired,             \* server: access tokens that are no longer accepted
  \* ---- history variables of Part I ----------------------------------
  starts,              \* number of calls made so far
  refreshCount,        \* number of POST /api/auth/refresh started
  saw401,              \* call got 401 on its first attempt, refresh token stored
  joined,              \* follower: the refreshes outstanding when it was parked
  allInFlight,         \* the first NCalls calls had their first attempt
                       \* outstanding together, all with the same access token
  \* ---- Part II: store (backend, as specified) -----------------------
  price,               \* event.price
  used_count,          \* per DiscountCode: its usage counter
  windowOpen,          \* the registration window is currently open
  reg,                 \* per user: the user's latest Registration (`coupon`:
                       \* the code of the run that created it, not sent)
  payments,            \* the Payment records, in order of creation
  puts,                \* PUT /api/events/registrations/{id} requests under way
  \* ---- Part II: event page (EventDetail.tsx, CouponDialogFa) --------
  isAuthenticated,     \* useAuth().isAuthenticated
  page,                \* location and component state of the event page
  dialog,              \* component state of the coupon dialog
  flows,               \* the runs of handleMainCTA / handleContinueFromModal
  \* ---- Part III: payment-result page (PaymentResult.tsx) ------------
  resultPage,          \* URL parameters and component state of the page
  \* ---- Part IV: admission under concurrent callers (as specified) ---
  registrations,       \* the Registration records of the event, in order of creation
  attempts,            \* the register calls: caller, progress, outcome
  \* ---- Part V: settlement under repeated deliveries (as specified) --
  deliveries,          \* the settle calls: ref_id, status, progress, outcome
  issueCalls,          \* per user: the calls of the Ticket Issuer's issue
  \* ---- Part VI: the quote of the Discount Resolver (as specified) ---
  quote,               \* base amount and rule of a quote call, and its answer
  paymentOut,          \* the amounts createPayment computes for that quote
  \* ---- Part VII: pure computations of the client --------------------
  exchange,            \* a call of request: options, first attempt, retry
  listing              \* an event as the list card and the event page show it

guardVars == <<isRefreshing, refreshSubscribers, localStorage, pc, kind, role,
               sent, sentToken, outcome, leads, refreshState, expired, starts,
               refreshCount, saw401, joined, allInFlight>>

pageVars == <<price, used_count, windowOpen, reg, payments, puts, isAuthenticated,
              page, dialog, flows>>

resultVars == <<resultPage>>

admVars == <<registrations, attempts>>

settleVars == <<deliveries, issueCalls>>

quoteVars == <<quote, paymentOut>>

clientVars == <<exchange, listing>>

auxVars == <<resultVars, admVars, settleVars, quoteVars, clientVars>>

vars == <<guardVars, pageVars, auxVars>>

\* ------------------------------------------------------------------------
\* Part I : helpers
\* ------------------------------------------------------------------------
\* localStorage.getItem(key)
getItem(store, key) == store[key]

\* localStorage.setItem(key, value)
setItem(store, key, value) == [store EXCEPT ![key] = value]

\* a store whose removeItem leaves the entry in place
removeItem_kept(store, key) == store

\* localStorage.removeItem(key)
removeItem(store, key) == [store EXCEPT ![key] = NoToken]

\* the server accepts a bearer token that was issued and has not expired
TokenValid(t) == t # NoToken /\ t \notin expired

\* the token pair the server issues in answer to refresh r
IssuedToken(r) == FirstToken + r

\* refresh operations that are outstanding (sent, not yet settled)
RefreshInFlight == {r \in RefreshIds : refreshState[r] \in {"inflight", "json", "hung"}}

\* addRefreshSubscriber(callback)
addRefreshSubscriber(subs, c) == Append(subs, c)

\* number of times call c is registered in the subscriber list
RECURSIVE Occurrences(_, _)
Occurrences(subs, c) ==
  IF subs = <<>> THEN 0
  ELSE (IF Head(subs) = c THEN 1 ELSE 0) + Occurrences(Tail(subs), c)

\* a broadcast that keeps the callbacks it has invoked
SubscribersKept(subs) == subs

\* the list onRefreshed leaves behind after invoking every callback
SubscribersAfterBroadcast(subs) == <<>>

\* The promise of a call settles once; a later resolve/reject is a no-op.
Settle(o, c, result) == IF o[c] = "none" THEN [o EXCEPT ![c] = result] ELSE o

GuardInit ==
  /\ isRefreshing = FALSE
  /\ refreshSubscribers = <<>>
  /\ localStorage = [access_token |-> FirstToken, refresh_token |-> FirstToken]
  /\ pc = [c \in Calls |-> "idle"]
  /\ kind = [c \in Calls |-> "request"]
  /\ role = [c \in Calls |-> "none"]
  /\ sent = [c \in Calls |-> 0]
  /\ sentToken = [c \in Calls |-> NoToken]
  /\ outcome = [c \in Calls |-> "none"]
  /\ leads = [c \in Calls |-> 0]
  /\ refreshState = [r \in RefreshIds |-> "none"]
  /\ expired = {}
  /\ starts = 0
  /\ refreshCount = 0
  /\ saw401 = [c \in Calls |-> FALSE]
  /\ joined = [c \in Calls |-> {}]
  /\ allInFlight = FALSE

\* ------------------------------------------------------------------------
\* Part II : the store (Admission Controller, Payment Orchestrator,
\*           Settlement Reconciler, Discount Resolver)
\* ------------------------------------------------------------------------
Min(a, b) == IF a <= b THEN a ELSE b

Max(a, b) == IF a >= b THEN a ELSE b

\* the discount rules of the codes known to the store
Rule(code) ==
  IF code = "OFF20"
  THEN [is_percentage |-> TRUE, rate |-> 20, fixed |-> 0, cap |-> 10000]
  ELSE [is_percentage |-> TRUE, rate |-> 100, fixed |-> 0, cap |-> BasePrice]

KnownCodes == {"FULL", "OFF20"}

RuleDiscount_uncapped(base, rule) ==
  IF rule.is_percentage THEN (base * rule.rate) \div 100 ELSE rule.fixed

\* discount_amount = min(rule.cap, rule.is_percentage ? base*rule.rate : rule.fixed),
\* the rate in percent
RuleDiscount(base, rule) ==
  Min(rule.cap, IF rule.is_percentage THEN (base * rule.rate) \div 100 ELSE rule.fixed)

RuleFinal_unclamped(base, rule) == base - RuleDiscount(base, rule)

\* final_price = max(0, base_amount - discount_amount)
RuleFinal(base, rule) == Max(0, base - RuleDiscount(base, rule))

\* quote(event_id, code): discount_amount and final_price
DiscountAmount(base, code) ==
  IF code \in KnownCodes THEN RuleDiscount(base, Rule(code)) ELSE 0

FinalPrice(base, code) == Max(0, base - DiscountAmount(base, code))

NoReg == [status |-> "none", id |-> 0, ticket_id |-> 0, by |-> "none",
          failedPay |-> FALSE, coupon |-> ""]

\* a Registration that holds a seat
Holds(r) == r.status \in {"pending", "confirmed"}

\* the number of seats in use
SeatsUsed == Cardinality({u \in Users : Holds(reg[u])})

Admission_noCapacity(open, holds, seats) ==
  IF ~open THEN "RegistrationClosedError"
  ELSE IF holds THEN "AlreadyRegisteredError"
  ELSE "created"

\* the decision of the atomic admission step: (1) the window is open, (2) the
\* user holds no non-cancelled Registration, (3) the count is below capacity
Admission(open, holds, seats) ==
  IF ~open THEN "RegistrationClosedError"
  ELSE IF holds THEN "AlreadyRegisteredError"
  ELSE IF seats >= Capacity THEN "CapacityExceededError"
  ELSE "created"

\* register(event_id, user_id): the outcome of the atomic admission step
AdmissionResult(u) == Admission(windowOpen, Holds(reg[u]), SeatsUsed)

\* the Registration the admission step creates
Admitted(u) ==
  [status |-> IF price = 0 THEN "confirmed" ELSE "pending",
   id |-> reg[u].id + 1,
   ticket_id |-> reg[u].id + 1,
   by |-> IF price = 0 THEN "free" ELSE "none",
   failedPay |-> FALSE,
   coupon |-> ""]

\* the usage counters after a Registration was confirmed by a request that
\* named `code`
Incremented(code) ==
  IF code \in KnownCodes THEN [used_count EXCEPT ![code] = @ + 1] ELSE used_count

\* the terminal states of a Payment
Terminal == {"PAID", "FAILED", "CANCELED"}

IsTerminal_never(st) == FALSE

IsTerminal(st) == st \in Terminal

\* the Payment p settles the Registration it was created for, still pending
SettlesRegistration(p) ==
  /\ reg[payments[p].user].id = payments[p].regId
  /\ reg[payments[p].user].status = "pending"

\* settle of a PENDING Payment: the Registration after the transition
\* (gateway-success: confirmed, ticket issued if not already issued;
\* gateway-failure: remains pending)
RegAfterSettle(p, status) ==
  IF SettlesRegistration(p) /\ status = "PAID"
  THEN [reg EXCEPT ![payments[p].user].status = "confirmed",
                   ![payments[p].user].by = "settle",
                   ![payments[p].user].ticket_id = IF @ = 0 THEN payments[p].regId ELSE @]
  ELSE IF SettlesRegistration(p) /\ status = "FAILED"
  THEN [reg EXCEPT ![payments[p].user].failedPay = TRUE]
  ELSE reg

\* settle of a PENDING Payment: the usage counters after the transition
UsedAfterSettle(p, status) ==
  IF SettlesRegistration(p) /\ status = "PAID"
  THEN Incremented(payments[p].discount_code) ELSE used_count

\* ------------------------------------------------------------------------
\* Part II : the event page
\* ------------------------------------------------------------------------
\* an amount in toman: the rial amount divided by 10 (a fraction, as in JS)
Toman(rial) == [num |-> rial, den |-> 10]

Null == [num |-> -1, den |-> 0]

\* quote of the Discount Resolver as the client receives it; Null: the check
\* is answered with an error
Quote(code) == IF code \in KnownCodes THEN Toman(FinalPrice(price, code)) ELSE Null

\* CouponDialogFa: const finalPrice = res?.final_price ?? basePrice / 10
DialogFinalPrice == IF dialog.res = Null THEN Toman(price) ELSE dialog.res

isFree_never == price < 0

\* EventDetail: const isFree = basePrice <= 0
isFree == price <= 0

\* EventDetail meta.full, from the event data loaded with the page
MetaFull == Max(0, Capacity - page.registration_count) <= 0

\* the disabled condition of the register button
ButtonDisabled ==
  page.submitting \/ page.alreadyRegistered \/ MetaFull \/ ~windowOpen

IdleFlow == [pc |-> "idle", kind |-> "none", coupon |-> "", final |-> Null,
             resp |-> "none", ticket |-> 0, live |-> FALSE, held |-> FALSE,
             calledPay |-> FALSE]

\* a run takes the lowest free slot
FreeFlow(f) ==
  /\ flows[f].pc \in {"idle", "done"}
  /\ \A g \in Flows : g < f => flows[g].pc \notin {"idle", "done"}

FreshDialog == [code |-> "", res |-> Null, verifying |-> FALSE, checkCode |-> ""]

\* a newly mounted event page: the event is loaded with its registration_count
\* and the effect check() (EventDetail.tsx:61-73) sends getRegistrationStatus
Mounted(count, loads, runs) ==
  [location |-> "event", open |-> FALSE, submitting |-> FALSE,
   alreadyRegistered |-> FALSE,
   regCheck |-> IF isAuthenticated THEN "sent" ELSE "done",
   registration_count |-> count, loads |-> loads, runs |-> runs,
   toast |-> "none", ticket |-> 0]

PageStoreInit ==
  /\ used_count = [c \in KnownCodes |-> 0]
  /\ windowOpen = TRUE
  /\ reg = [u \in Users |-> NoReg]
  /\ payments = <<>>
  /\ puts = {}
  /\ page = Mounted(0, 1, 0)
  /\ dialog = FreshDialog
  /\ flows = [f \in Flows |-> IdleFlow]

\* the page variables while only the ApiClient is studied
PageFrozen ==
  /\ price = BasePrice
  /\ isAuthenticated = TRUE
  /\ PageStoreInit

\* PaymentResult is not mounted
NoResultPage == [open |-> FALSE, status |-> "none", refId |-> 0,
                 fetch |-> "none", fallback |-> Null, opens |-> 0]

\* no register call was made
NoAttempts == [a \in Attempts |-> [user |-> 0, state |-> "none", result |-> "none"]]

\* no quote was asked for
NoQuote == [base_amount |-> 0, rule |-> Rule("FULL"), state |-> "none",
            discount_amount |-> 0, final_price |-> 0]

\* the names of the request headers told apart
HeaderNames == {"Content-Type", "Authorization", "Accept"}

\* a headers object: the value of each header, Absent when it is not set
Absent == ""

NoHeaders == [n \in HeaderNames |-> Absent]

\* request was not called
NoExchange == [state |-> "none", options |-> [method |-> "GET", body |-> Absent,
                                               headers |-> NoHeaders],
               first |-> NoHeaders, retry |-> NoHeaders, role |-> "none"]

\* a JSON null
NoValue == -1

\* no event was fetched
NoEvent == [capacity |-> NoValue, registration_count |-> 0,
            registration_start_date |-> NoValue, registration_end_date |-> NoValue]

\* neither the list card nor the event page was rendered
NoListing == [event |-> NoEvent, now |-> 0, detail |-> FALSE, card |-> FALSE,
              meta |-> [registrationOpen |-> FALSE, full |-> FALSE],
              left |-> 0, timeOk |-> FALSE, available |-> FALSE, reason |-> "none"]

\* the variables of Part VII while another part is studied
ClientFrozen == exchange = NoExchange /\ listing = NoListing

\* createPayment was not called
NoPaymentOut == [state |-> "none", base_amount |-> 0, discount_amount |-> 0,
                 amount |-> 0]

\* no settle call was made
NoDeliveries ==
  [d \in Deliveries |-> [ref |-> 0, status |-> "none", state |-> "none", outcome |-> "none"]]

\* the variables of Parts III to V while another part is studied
AuxFrozen ==
  /\ resultPage = NoResultPage
  /\ registrations = <<>>
  /\ attempts = NoAttempts
  /\ deliveries = NoDeliveries
  /\ issueCalls = [u \in Users |-> 0]
  /\ quote = NoQuote
  /\ paymentOut = NoPaymentOut
  /\ ClientFrozen

Init == GuardInit /\ PageFrozen /\ AuxFrozen

\* The access token held in storage reaches the end of its lifetime.
ExpireAccess ==
  /\ getItem(localStorage, "access_token") # NoToken
  /\ getItem(localStorage, "access_token") \notin expired
  /\ expired' = expired \cup {getItem(localStorage, "access_token")}
  /\ UNCHANGED <<isRefreshing, refreshSubscribers, localStorage, pc, kind, role,
                 sent, sentToken, outcome, leads, refreshState, starts,
                 refreshCount, saw401, joined, allInFlight>>
  /\ UNCHANGED <<pageVars, auxVars>>

\* A client method is called in a free slot: getAuthHeaders reads the token
\* and the first fetch is sent (request: api.ts:59-68; upload*: api.ts:196-203,
\* 545-552).
Start(c, k) ==
  /\ pc[c] \in {"idle", "done"}
  /\ \A d \in Calls : d < c => pc[d] \notin {"idle", "done"}   \* lowest free slot
  /\ starts < MaxStarts
  /\ starts' = starts + 1
  /\ pc' = [pc EXCEPT ![c] = "fetch"]
  /\ kind' = [kind EXCEPT ![c] = k]
  /\ role' = [role EXCEPT ![c] = "none"]
  /\ sent' = [sent EXCEPT ![c] = 1]
  /\ sentToken' = [sentToken EXCEPT ![c] = getItem(localStorage, "access_token")]
  /\ outcome' = [outcome EXCEPT ![c] = "none"]
  /\ leads' = [leads EXCEPT ![c] = 0]
  /\ saw401' = [saw401 EXCEPT ![c] = FALSE]
  /\ joined' = [joined EXCEPT ![c] = {}]
  /\ allInFlight' = (allInFlight \/
        (/\ starts + 1 = NCalls
         /\ \A d \in Calls \ {c} :
              pc[d] = "fetch" /\ sentToken[d] = getItem(localStorage, "access_token")))
  /\ UNCHANGED <<isRefreshing, refreshSubscribers, localStorage, refreshState,
                 expired, refreshCount>>
  /\ UNCHANGED <<pageVars, auxVars>>

\* First attempt answered 2xx: `return response.json()` (api.ts:131, 212, 561).
FetchOk(c) ==
  /\ pc[c] = "fetch"
  /\ TokenValid(sentToken[c])
  /\ pc' = [pc EXCEPT ![c] = "done"]
  /\ outcome' = Settle(outcome, c, "ok")
  /\ UNCHANGED <<isRefreshing, refreshSubscribers, localStorage, kind, role, sent,
                 sentToken, leads, refreshState, expired, starts, refreshCount,
                 saw401, joined, allInFlight>>
  /\ UNCHANGED <<pageVars, auxVars>>

\* First attempt answered with a non-401 error status: `throw new Error(message)`
\* (api.ts:124-129, 205-210, 554-559).
FetchError(c) ==
  /\ pc[c] = "fetch"
  /\ TokenValid(sentToken[c])
  /\ pc' = [pc EXCEPT ![c] = "done"]
  /\ outcome' = Settle(outcome, c, "error")
  /\ UNCHANGED <<isRefreshing, refreshSubscribers, localStorage, kind, role, sent,
                 sentToken, leads, refreshState, expired, starts, refreshCount,
                 saw401, joined, allInFlight>>
  /\ UNCHANGED <<pageVars, auxVars>>

\* The first fetch rejects (network failure): the rejection leaves request.
FetchNetworkError(c) ==
  /\ pc[c] = "fetch"
  /\ pc' = [pc EXCEPT ![c] = "done"]
  /\ outcome' = Settle(outcome, c, "network_error")
  /\ UNCHANGED <<isRefreshing, refreshSubscribers, localStorage, kind, role, sent,
                 sentToken, leads, refreshState, expired, starts, refreshCount,
                 saw401, joined, allInFlight>>
  /\ UNCHANGED <<pageVars, auxVars>>

\* uploadProfilePicture / uploadGalleryImage answered 401: `if (!response.ok)
\* throw` (api.ts:205-210, 554-559); no refresh branch exists in these methods.
Upload401(c) ==
  /\ pc[c] = "fetch"
  /\ kind[c] = "upload"
  /\ ~TokenValid(sentToken[c])
  /\ pc' = [pc EXCEPT ![c] = "done"]
  /\ outcome' = Settle(outcome, c, "unauthorized")
  /\ saw401' = [saw401 EXCEPT ![c] = getItem(localStorage, "refresh_token") # NoToken]
  /\ UNCHANGED <<isRefreshing, refreshSubscribers, localStorage, kind, role, sent,
                 sentToken, leads, refreshState, expired, starts, refreshCount,
                 joined, allInFlight>>
  /\ UNCHANGED <<pageVars, auxVars>>

\* request answered 401 with no refresh token stored: the condition of
\* api.ts:71 is false and the generic error of lines 124-129 is thrown.
Request401NoRefreshToken(c) ==
  /\ pc[c] = "fetch"
  /\ kind[c] = "request"
  /\ ~TokenValid(sentToken[c])
  /\ getItem(localStorage, "refresh_token") = NoToken
  /\ pc' = [pc EXCEPT ![c] = "done"]
  /\ outcome' = Settle(outcome, c, "unauthorized")
  /\ UNCHANGED <<isRefreshing, refreshSubscribers, localStorage, kind, role, sent,
                 sentToken, leads, refreshState, expired, starts, refreshCount,
                 saw401, joined, allInFlight>>
  /\ UNCHANGED <<pageVars, auxVars>>

\* request answered 401, refresh token stored, isRefreshing false (api.ts:71-75):
\* the flag is set and refreshAccessToken sends POST /api/auth/refresh
\* (api.ts:22-32) before the first await.
Request401Leader(c) ==
  /\ pc[c] = "fetch"
  /\ kind[c] = "request"
  /\ ~TokenValid(sentToken[c])
  /\ getItem(localStorage, "refresh_token") # NoToken
  /\ ~isRefreshing
  /\ isRefreshing' = TRUE
  /\ pc' = [pc EXCEPT ![c] = "refreshing"]
  /\ role' = [role EXCEPT ![c] = "leader"]
  /\ refreshCount' = refreshCount + 1
  /\ leads' = [leads EXCEPT ![c] = refreshCount + 1]
  /\ refreshState' = [refreshState EXCEPT ![refreshCount + 1] = "inflight"]
  /\ saw401' = [saw401 EXCEPT ![c] = TRUE]
  /\ UNCHANGED <<refreshSubscribers, localStorage, kind, sent, sentToken, outcome,
                 expired, starts, joined, allInFlight>>
  /\ UNCHANGED <<pageVars, auxVars>>

\* request answered 401, refresh token stored, isRefreshing true
\* (api.ts:98-120): the retry callback is pushed and the call waits.
Request401Follower(c) ==
  /\ pc[c] = "fetch"
  /\ kind[c] = "request"
  /\ ~TokenValid(sentToken[c])
  /\ getItem(localStorage, "refresh_token") # NoToken
  /\ isRefreshing
  /\ refreshSubscribers' = addRefreshSubscriber(refreshSubscribers, c)
  /\ pc' = [pc EXCEPT ![c] = "waiting"]
  /\ role' = [role EXCEPT ![c] = "follower"]
  /\ joined' = [joined EXCEPT ![c] = RefreshInFlight]
  /\ saw401' = [saw401 EXCEPT ![c] = TRUE]
  /\ UNCHANGED <<isRefreshing, localStorage, kind, sent, sentToken, outcome, leads,
                 refreshState, expired, starts, refreshCount, allInFlight>>
  /\ UNCHANGED <<pageVars, auxVars>>

\* The refresh endpoint answers !ok (api.ts:34-38): both tokens are removed and
\* 'Session expired' is thrown; the catch of request (api.ts:94-97) clears the
\* flag and rethrows.  The subscriber list is not touched.
RefreshRejected(c) ==
  /\ pc[c] = "refreshing"
  /\ refreshState[leads[c]] = "inflight"
  /\ localStorage' = removeItem(removeItem(localStorage, "access_token"), "refresh_token")
  /\ isRefreshing' = FALSE
  /\ refreshState' = [refreshState EXCEPT ![leads[c]] = "rejected"]
  /\ pc' = [pc EXCEPT ![c] = "done"]
  /\ outcome' = Settle(outcome, c, "session_expired")
  /\ UNCHANGED <<refreshSubscribers, kind, role, sent, sentToken, leads, expired,
                 starts, refreshCount, saw401, joined, allInFlight>>
  /\ UNCHANGED <<pageVars, auxVars>>

\* The refresh fetch rejects (network failure): nothing is removed from
\* storage; the catch of request clears the flag and rethrows (api.ts:94-97).
RefreshNetworkError(c) ==
  /\ pc[c] = "refreshing"
  /\ refreshState[leads[c]] = "inflight"
  /\ isRefreshing' = FALSE
  /\ refreshState' = [refreshState EXCEPT ![leads[c]] = "failed"]
  /\ pc' = [pc EXCEPT ![c] = "done"]
  /\ outcome' = Settle(outcome, c, "network_error")
  /\ UNCHANGED <<refreshSubscribers, localStorage, kind, role, sent, sentToken,
                 leads, expired, starts, refreshCount, saw401, joined, allInFlight>>
  /\ UNCHANGED <<pageVars, auxVars>>

\* The refresh endpoint never answers.  fetch is called without a signal or a
\* timer (api.ts:28-32), so nothing in the client ends the wait.
RefreshHang(c) ==
  /\ pc[c] = "refreshing"
  /\ refreshState[leads[c]] = "inflight"
  /\ refreshState' = [refreshState EXCEPT ![leads[c]] = "hung"]
  /\ UNCHANGED <<isRefreshing, refreshSubscribers, localStorage, pc, kind, role, sent,
                 sentToken, outcome, leads, expired, starts, refreshCount, saw401,
                 joined, allInFlight>>
  /\ UNCHANGED <<pageVars, auxVars>>

\* The refresh endpoint answers ok: the server has issued a new token pair and
\* refreshAccessToken waits for the body (api.ts:40, `await response.json()`).
RefreshResponseOk(c) ==
  /\ pc[c] = "refreshing"
  /\ refreshState[leads[c]] = "inflight"
  /\ refreshState' = [refreshState EXCEPT ![leads[c]] = "json"]
  /\ UNCHANGED <<isRefreshing, refreshSubscribers, localStorage, pc, kind, role, sent,
                 sentToken, outcome, leads, expired, starts, refreshCount, saw401,
                 joined, allInFlight>>
  /\ UNCHANGED <<pageVars, auxVars>>

\* The body of the refresh response is available (api.ts:40-43, 76-87):
\* both tokens are stored, the flag is cleared, onRefreshed invokes every
\* subscriber (each sends its retry up to its own await) and empties the list,
\* and the leader sends its own retry.
RefreshDone(c) ==
  /\ pc[c] = "refreshing"
  /\ refreshState[leads[c]] = "json"
  /\ LET token == IssuedToken(leads[c]) IN
       /\ localStorage' = setItem(setItem(localStorage, "access_token", token),
                                  "refresh_token", token)
       /\ sentToken' = [d \in Calls |->
                          IF d = c \/ Occurrences(refreshSubscribers, d) > 0
                          THEN token ELSE sentToken[d]]
  /\ isRefreshing' = FALSE
  /\ refreshState' = [refreshState EXCEPT ![leads[c]] = "ok"]
  /\ refreshSubscribers' = SubscribersAfterBroadcast(refreshSubscribers)
  /\ sent' = [d \in Calls |->
                sent[d] + Occurrences(refreshSubscribers, d) + (IF d = c THEN 1 ELSE 0)]
  /\ pc' = [d \in Calls |->
                IF d = c \/ Occurrences(refreshSubscribers, d) > 0
                THEN "retry" ELSE pc[d]]
  /\ UNCHANGED <<kind, role, outcome, leads, expired, starts, refreshCount, saw401,
                 joined, allInFlight>>
  /\ UNCHANGED <<pageVars, auxVars>>

\* The retry is answered 2xx (api.ts:92 leader, 114 follower).
RetryOk(c) ==
  /\ pc[c] = "retry"
  /\ TokenValid(sentToken[c])
  /\ pc' = [pc EXCEPT ![c] = "done"]
  /\ outcome' = Settle(outcome, c, "ok")
  /\ UNCHANGED <<isRefreshing, refreshSubscribers, localStorage, kind, role, sent,
                 sentToken, leads, refreshState, expired, starts, refreshCount,
                 saw401, joined, allInFlight>>
  /\ UNCHANGED <<pageVars, auxVars>>

\* the flag after the catch block of the leader ran (api.ts:94-97)
FlagAfterLeaderCatch(flag) == FALSE

\* The retry is answered !ok (401 included) or its fetch rejects.
\*   leader   (api.ts:88-91, 94-97): throw, caught by the catch that also
\*            guards the refresh: isRefreshing = false, rethrow;
\*   follower (api.ts:110-112, 116-118): reject.
RetryFailed(c, result) ==
  /\ pc[c] = "retry"
  /\ result = "unauthorized" => ~TokenValid(sentToken[c])
  /\ result = "error" => TokenValid(sentToken[c])
  /\ pc' = [pc EXCEPT ![c] = "done"]
  /\ outcome' = Settle(outcome, c, result)
  /\ isRefreshing' = IF role[c] = "leader" THEN FlagAfterLeaderCatch(isRefreshing)
                     ELSE isRefreshing
  /\ UNCHANGED <<refreshSubscribers, localStorage, kind, role, sent, sentToken,
                 leads, refreshState, expired, starts, refreshCount, saw401,
                 joined, allInFlight>>
  /\ UNCHANGED <<pageVars, auxVars>>

Next ==
  \/ ExpireAccess
  \/ \E c \in Calls, k \in Kinds : Start(c, k)
  \/ \E c \in Calls : FetchOk(c)
  \/ \E c \in Calls : FetchError(c)
  \/ \E c \in Calls : FetchNetworkError(c)
  \/ \E c \in Calls : Upload401(c)
  \/ \E c \in Calls : Request401NoRefreshToken(c)
  \/ \E c \in Calls : Request401Leader(c)
  \/ \E c \in Calls : Request401Follower(c)
  \/ \E c \in Calls : RefreshRejected(c)
  \/ \E c \in Calls : RefreshNetworkError(c)
  \/ \E c \in Calls : RefreshHang(c)
  \/ \E c \in Calls : RefreshResponseOk(c)
  \/ \E c \in Calls : RefreshDone(c)
  \/ \E c \in Calls : RetryOk(c)
  \/ \E c \in Calls, r \in {"error", "unauthorized", "network_error"} : RetryFailed(c, r)

Spec == Init /\ [][Next]_vars

\* ------------------------------------------------------------------------
\* Part II : actions
\* ------------------------------------------------------------------------
PageInit ==
  /\ price \in {0, BasePrice}
  /\ isAuthenticated \in BOOLEAN
  /\ PageStoreInit

\* the component state a run leaves behind: `finally` (EventDetail.tsx:103-105,
\* 205-208) and setAlreadyRegistered; the setters of a component that is no
\* longer mounted do nothing
AfterRun(closeDialog, already, toast) ==
  IF page.location = "event"
  THEN [page EXCEPT !.submitting = FALSE,
                    !.open = IF closeDialog THEN FALSE ELSE @,
                    !.alreadyRegistered = IF already THEN TRUE ELSE @,
                    !.toast = toast]
  ELSE [page EXCEPT !.toast = toast]

\* the page after the router or the browser left the event page
Left(loc, toast, ticket) ==
  [page EXCEPT !.location = loc, !.open = FALSE, !.submitting = FALSE,
               !.alreadyRegistered = FALSE, !.regCheck = "done",
               !.toast = toast, !.ticket = ticket]

\* the toast of the catch blocks (EventDetail.tsx:95-102, 196-204): the free
\* run rethrows an error it does not recognise and shows nothing
CatchToast(paid, matched) ==
  IF matched THEN "already" ELSE IF paid THEN "error" ELSE page.toast

\* a finished run frees its slot; of a run that met a held pending
\* Registration the record of what it did is kept (`held`, `calledPay`)
Finished(fl) ==
  IF fl.held THEN [IdleFlow EXCEPT !.pc = "done", !.held = TRUE, !.calledPay = fl.calledPay]
  ELSE IdleFlow

\* a run that ended without an answer to registerForEvent
Unanswered(fl) == Finished([fl EXCEPT !.held = FALSE])

\* the runs after the document was unloaded: requests already sent may still
\* reach the store, nothing else of the run happens
Unloaded ==
  [f \in Flows |->
     IF flows[f].pc \in {"reg_req", "pay_req"}
     THEN [flows[f] EXCEPT !.live = FALSE]
     ELSE IF flows[f].pc = "reg_resp" THEN Unanswered(flows[f])
     ELSE IF flows[f].pc = "pay_resp" THEN Finished(flows[f])
     ELSE flows[f]]

\* the first statements of a run up to the first await
Started(f, k, coupon, final) ==
  [flows EXCEPT ![f] = [pc |-> "reg_req", kind |-> k, coupon |-> coupon,
                        final |-> final, resp |-> "none", ticket |-> 0,
                        live |-> TRUE, held |-> FALSE, calledPay |-> FALSE]]

\* The browser loads the event page (reload, or return from the gateway or
\* from another page).
Reload ==
  /\ page.loads < MaxLoads
  /\ page' = Mounted(SeatsUsed, page.loads + 1, page.runs)
  /\ dialog' = FreshDialog
  /\ flows' = Unloaded
  /\ UNCHANGED <<price, used_count, windowOpen, reg, payments, puts, isAuthenticated>>
  /\ UNCHANGED <<guardVars, auxVars>>

\* GET /events/{id}/is-registered is answered by the store, then
\* `if (!cancelled) setAlreadyRegistered(res.is_registered)` (EventDetail.tsx:67)
CheckRegistrationResponse ==
  /\ page.regCheck = "sent"
  /\ page' = [page EXCEPT !.regCheck = "done",
                          !.alreadyRegistered = Holds(reg[PageUser])]
  /\ UNCHANGED <<price, used_count, windowOpen, reg, payments, puts, isAuthenticated, dialog, flows>>
  /\ UNCHANGED <<guardVars, auxVars>>

\* `catch { /* ignore */ }` (EventDetail.tsx:68)
CheckRegistrationFailed ==
  /\ page.regCheck = "sent"
  /\ page' = [page EXCEPT !.regCheck = "done"]
  /\ UNCHANGED <<price, used_count, windowOpen, reg, payments, puts, isAuthenticated, dialog, flows>>
  /\ UNCHANGED <<guardVars, auxVars>>

\* handleMainCTA, not authenticated (EventDetail.tsx:85-89): navigate('/auth').
MainCTAUnauthenticated ==
  /\ page.location = "event" /\ ~page.open /\ ~ButtonDisabled
  /\ ~isAuthenticated
  /\ page' = Left("auth", "login", 0)
  /\ dialog' = FreshDialog
  /\ UNCHANGED <<price, used_count, windowOpen, reg, payments, puts, isAuthenticated, flows>>
  /\ UNCHANGED <<guardVars, auxVars>>

\* handleMainCTA, free event (EventDetail.tsx:90-93): setSubmitting(true) and
\* registerForEvent is sent.
MainCTAFree(f) ==
  /\ page.location = "event" /\ ~page.open /\ ~ButtonDisabled
  /\ isAuthenticated /\ isFree
  /\ FreeFlow(f) /\ page.runs < MaxRuns
  /\ page' = [page EXCEPT !.submitting = TRUE, !.runs = @ + 1]
  /\ flows' = Started(f, "free", "", Null)
  /\ UNCHANGED <<price, used_count, windowOpen, reg, payments, puts, isAuthenticated, dialog>>
  /\ UNCHANGED <<guardVars, auxVars>>

\* handleMainCTA, priced event (EventDetail.tsx:106-108): setOpen(true).
MainCTAOpenDialog ==
  /\ page.location = "event" /\ ~page.open /\ ~ButtonDisabled
  /\ isAuthenticated /\ ~isFree
  /\ page' = [page EXCEPT !.open = TRUE]
  /\ UNCHANGED <<price, used_count, windowOpen, reg, payments, puts, isAuthenticated, dialog, flows>>
  /\ UNCHANGED <<guardVars, auxVars>>

\* the coupon dialog is shown
DialogShown == page.location = "event" /\ page.open /\ ~isFree

\* onChange of the coupon input (CouponDialogFa, Navbar.tsx:264-270): setCode.
DialogType(code) ==
  /\ DialogShown
  /\ code # dialog.code
  /\ dialog' = [dialog EXCEPT !.code = code]
  /\ UNCHANGED <<price, used_count, windowOpen, reg, payments, puts, isAuthenticated, page, flows>>
  /\ UNCHANGED <<guardVars, auxVars>>

\* handleVerify up to its await (Navbar.tsx:218-224): the check of the code in
\* the input is sent.
DialogVerify ==
  /\ DialogShown
  /\ dialog.code # "" /\ ~dialog.verifying
  /\ dialog' = [dialog EXCEPT !.verifying = TRUE, !.checkCode = dialog.code]
  /\ UNCHANGED <<price, used_count, windowOpen, reg, payments, puts, isAuthenticated, page, flows>>
  /\ UNCHANGED <<guardVars, auxVars>>

\* handleVerify after its await (Navbar.tsx:227-232 on success, 233-247 on an
\* error answer; 248-250): setRes, setVerifying(false).  POST
\* /payments/coupon/check has no side effect on the store.
DialogVerifyResponse ==
  /\ dialog.verifying
  /\ dialog' = [dialog EXCEPT
       !.verifying = FALSE, !.checkCode = "",
       !.res = IF Quote(dialog.checkCode) # Null THEN Quote(dialog.checkCode)
               ELSE Toman(price)]
  /\ UNCHANGED <<price, used_count, windowOpen, reg, payments, puts, isAuthenticated, page, flows>>
  /\ UNCHANGED <<guardVars, auxVars>>

\* the check request fails on the network: the catch of handleVerify
\* (Navbar.tsx:233-250).
DialogVerifyNetworkError ==
  /\ dialog.verifying
  /\ dialog' = [dialog EXCEPT !.verifying = FALSE, !.checkCode = "",
                              !.res = Toman(price)]
  /\ UNCHANGED <<price, used_count, windowOpen, reg, payments, puts, isAuthenticated, page, flows>>
  /\ UNCHANGED <<guardVars, auxVars>>

\* the cancel button (Navbar.tsx:308): onOpenChange(false).
DialogClose ==
  /\ DialogShown
  /\ page' = [page EXCEPT !.open = FALSE]
  /\ UNCHANGED <<price, used_count, windowOpen, reg, payments, puts, isAuthenticated, dialog, flows>>
  /\ UNCHANGED <<guardVars, auxVars>>

\* the continue button (Navbar.tsx:309-314) calls
\* handleContinueFromModal(code || undefined, finalPrice), which runs up to
\* `await api.registerForEvent(event.id)` (EventDetail.tsx:111-124).
DialogContinue(f) ==
  /\ DialogShown
  /\ ~dialog.verifying
  /\ FreeFlow(f) /\ page.runs < MaxRuns
  /\ page' = [page EXCEPT !.submitting = TRUE, !.runs = @ + 1]
  /\ flows' = Started(f, "paid", dialog.code, DialogFinalPrice)
  /\ UNCHANGED <<price, used_count, windowOpen, reg, payments, puts, isAuthenticated, dialog>>
  /\ UNCHANGED <<guardVars, auxVars>>

\* POST /events/{id}/register of a run is handled by the Admission Controller.
\* `held` records that the request met a pending Registration of the user
\* whose payment attempt had failed, while the window was open.
\* `delivered`: the answer reaches the client (otherwise its fetch rejects).
ServerRegister(f, delivered) ==
  /\ flows[f].pc = "reg_req"
  /\ reg' = IF AdmissionResult(PageUser) = "created"
            THEN [reg EXCEPT ![PageUser] =
                    [Admitted(PageUser) EXCEPT !.coupon = flows[f].coupon]]
            ELSE reg
  /\ flows' = [flows EXCEPT ![f] =
       IF flows[f].live
       THEN [@ EXCEPT !.pc = "reg_resp",
                      !.resp = IF delivered THEN AdmissionResult(PageUser)
                               ELSE "network_error",
                      !.ticket = IF delivered /\ AdmissionResult(PageUser) = "created"
                                 THEN Admitted(PageUser).ticket_id ELSE 0,
                      !.held = (delivered /\ reg[PageUser].status = "pending"
                                /\ reg[PageUser].failedPay /\ windowOpen)]
       ELSE Unanswered(@)]
  /\ ~flows[f].live => delivered
  /\ UNCHANGED <<price, used_count, windowOpen, payments, puts, isAuthenticated, page, dialog>>
  /\ UNCHANGED <<guardVars, auxVars>>

\* goSuccess (EventDetail.tsx:75-81) followed by the `finally` of the run
GoSuccess(registrationId) == Left("success", "success", registrationId)

\* handleMainCTA after registerForEvent succeeded (EventDetail.tsx:93-94, 103-105).
RegisteredFree(f) ==
  /\ flows[f].pc = "reg_resp" /\ flows[f].kind = "free"
  /\ flows[f].resp = "created"
  /\ page' = GoSuccess(flows[f].ticket)
  /\ dialog' = FreshDialog
  /\ flows' = [flows EXCEPT ![f] = Finished(@)]
  /\ UNCHANGED <<price, used_count, windowOpen, reg, payments, puts, isAuthenticated>>
  /\ UNCHANGED <<guardVars, auxVars>>

\* handleContinueFromModal after registerForEvent succeeded, finalAmount === 0
\* (EventDetail.tsx:127-148): ChangeRegistrationStatus(reg.id, 'confirmed') is
\* sent and not awaited, then goSuccess.
RegisteredZeroAmount(f) ==
  /\ flows[f].pc = "reg_resp" /\ flows[f].kind = "paid"
  /\ flows[f].resp = "created"
  /\ flows[f].final.num = 0
  /\ puts' = puts \cup {reg[PageUser].id}
  /\ page' = GoSuccess(flows[f].ticket)
  /\ dialog' = FreshDialog
  /\ flows' = [flows EXCEPT ![f] = Finished(@)]
  /\ UNCHANGED <<price, used_count, windowOpen, reg, payments, isAuthenticated>>
  /\ UNCHANGED <<guardVars, auxVars>>

RegisteredPay_unchecked(f) ==
  /\ flows[f].pc = "reg_resp" /\ flows[f].kind = "paid"
  /\ flows[f].final.num # 0
  /\ flows' = [flows EXCEPT ![f] =
       [@ EXCEPT !.pc = "pay_req", !.final = Null, !.calledPay = TRUE]]
  /\ UNCHANGED <<price, used_count, windowOpen, reg, payments, puts, isAuthenticated, page, dialog>>
  /\ UNCHANGED <<guardVars, auxVars>>

\* handleContinueFromModal after registerForEvent succeeded, finalAmount # 0
\* (EventDetail.tsx:150-155): createPayment is sent.
RegisteredPay(f) ==
  /\ flows[f].pc = "reg_resp" /\ flows[f].kind = "paid"
  /\ flows[f].resp = "created"
  /\ flows[f].final.num # 0
  /\ flows' = [flows EXCEPT ![f] =
       [@ EXCEPT !.pc = "pay_req", !.final = Null, !.calledPay = TRUE]]
  /\ UNCHANGED <<price, used_count, windowOpen, reg, payments, puts, isAuthenticated, page, dialog>>
  /\ UNCHANGED <<guardVars, auxVars>>

\* registerForEvent was answered with an error (EventDetail.tsx:95-105 for the
\* free event, 196-208 for the priced one).  `matched`: the message contains
\* 'already registered' or the Persian word for registration.
RegisterRefused(f, matched) ==
  /\ flows[f].pc = "reg_resp"
  /\ flows[f].resp # "created"
  /\ flows[f].resp = "network_error" => ~matched
  /\ page' = AfterRun(flows[f].kind = "paid", matched,
                      CatchToast(flows[f].kind = "paid", matched))
  /\ flows' = [flows EXCEPT ![f] = Finished(@)]
  /\ UNCHANGED <<price, used_count, windowOpen, reg, payments, puts, isAuthenticated, dialog>>
  /\ UNCHANGED <<guardVars, auxVars>>

\* POST /payments/create of a run is handled by the Payment Orchestrator.
\* `gatewayOk`: the gateway acknowledges the session; `delivered`: the answer
\* reaches the client (otherwise its fetch rejects).
ServerCreatePayment(f, gatewayOk, delivered) ==
  /\ flows[f].pc = "pay_req"
  /\ LET amount == FinalPrice(price, flows[f].coupon)
         result ==
           IF reg[PageUser].status # "pending" THEN "RegistrationNotPendingError"
           ELSE IF flows[f].coupon \notin KnownCodes \cup {""} THEN "InvalidCodeError"
           ELSE IF amount = 0 THEN "free"
           ELSE IF gatewayOk THEN "session"
           ELSE "GatewaySessionError"
         payment == [user |-> PageUser, regId |-> reg[PageUser].id,
                     status |-> IF gatewayOk THEN "PENDING" ELSE "INIT",
                     discount_code |-> flows[f].coupon,
                     base_amount |-> price,
                     discount_amount |-> DiscountAmount(price, flows[f].coupon),
                     amount |-> amount]
     IN
       /\ result \in {"session", "GatewaySessionError"} => Len(payments) < MaxPayments
       /\ result \notin {"session", "GatewaySessionError"} => gatewayOk
       /\ payments' = IF result \in {"session", "GatewaySessionError"}
                      THEN Append(payments, payment) ELSE payments
       /\ used_count' = IF result = "free" THEN Incremented(flows[f].coupon)
                        ELSE used_count
       /\ reg' = IF result = "free"
                 THEN [reg EXCEPT ![PageUser].status = "confirmed",
                                  ![PageUser].by = "serverZero"]
                 ELSE IF result = "GatewaySessionError"
                 THEN [reg EXCEPT ![PageUser].failedPay = TRUE]
                 ELSE reg
       /\ flows' = [flows EXCEPT ![f] =
            IF flows[f].live
            THEN [@ EXCEPT !.pc = "pay_resp", !.coupon = "",
                           !.resp = IF delivered THEN result ELSE "network_error"]
            ELSE Finished(@)]
       /\ ~flows[f].live => delivered
  /\ UNCHANGED <<price, windowOpen, puts, isAuthenticated, page, dialog>>
  /\ UNCHANGED <<guardVars, auxVars>>

\* createPayment returned a session URL and a non-zero amount
\* (EventDetail.tsx:178-194): window.location.href = result.start_pay_url.
PaySession(f) ==
  /\ flows[f].pc = "pay_resp"
  /\ flows[f].resp = "session"
  /\ page' = Left("gateway", page.toast, 0)
  /\ dialog' = FreshDialog
  /\ flows' = [g \in Flows |-> IF g = f THEN Finished(flows[f]) ELSE Unloaded[g]]
  /\ UNCHANGED <<price, used_count, windowOpen, reg, payments, puts, isAuthenticated>>
  /\ UNCHANGED <<guardVars, auxVars>>

PayFree_asError(f) ==
  /\ flows[f].pc = "pay_resp"
  /\ flows[f].resp = "free"
  /\ page' = AfterRun(TRUE, FALSE, "error")
  /\ flows' = [flows EXCEPT ![f] = Finished(@)]
  /\ UNCHANGED <<price, used_count, windowOpen, reg, payments, puts, isAuthenticated, dialog>>
  /\ UNCHANGED <<guardVars, auxVars>>

\* createPayment returned no session URL or amount 0 (EventDetail.tsx:158-176).
PayFree(f) ==
  /\ flows[f].pc = "pay_resp"
  /\ flows[f].resp = "free"
  /\ page' = GoSuccess(flows[f].ticket)
  /\ dialog' = FreshDialog
  /\ flows' = [flows EXCEPT ![f] = Finished(@)]
  /\ UNCHANGED <<price, used_count, windowOpen, reg, payments, puts, isAuthenticated>>
  /\ UNCHANGED <<guardVars, auxVars>>

\* createPayment was answered with an error (EventDetail.tsx:196-208).
PayRefused(f, matched) ==
  /\ flows[f].pc = "pay_resp"
  /\ flows[f].resp \notin {"session", "free"}
  /\ flows[f].resp = "network_error" => ~matched
  /\ page' = AfterRun(TRUE, matched, CatchToast(TRUE, matched))
  /\ flows' = [flows EXCEPT ![f] = Finished(@)]
  /\ UNCHANGED <<price, used_count, windowOpen, reg, payments, puts, isAuthenticated, dialog>>
  /\ UNCHANGED <<guardVars, auxVars>>

\* the request of a run is lost before it reaches the store: the fetch
\* rejects, and the run continues in its catch block.
FlowNetworkError(f) ==
  /\ flows[f].pc \in {"reg_req", "pay_req"}
  /\ flows[f].live
  /\ flows' = [flows EXCEPT ![f] =
       [@ EXCEPT !.pc = IF flows[f].pc = "reg_req" THEN "reg_resp" ELSE "pay_resp",
                 !.resp = "network_error"]]
  /\ UNCHANGED page
  /\ UNCHANGED <<price, used_count, windowOpen, reg, payments, puts, isAuthenticated, dialog>>
  /\ UNCHANGED <<guardVars, auxVars>>

\* PUT /api/events/registrations/{id} with status 'confirmed' is handled.
\* `accept`: the store applies the requested status.
ServerChangeStatus(id, accept) ==
  /\ id \in puts
  /\ puts' = puts \ {id}
  /\ reg' = IF accept /\ reg[PageUser].id = id /\ reg[PageUser].status = "pending"
            THEN [reg EXCEPT ![PageUser].status = "confirmed", ![PageUser].by = "client"]
            ELSE reg
  /\ UNCHANGED <<price, used_count, windowOpen, payments, isAuthenticated, page, dialog, flows>>
  /\ UNCHANGED <<guardVars, auxVars>>

\* settle(ref_id, status, amount) for a PENDING Payment: Payment and
\* Registration change together.
GatewayCallback(p, status) ==
  /\ p \in 1..Len(payments)
  /\ payments[p].status = "PENDING"
  /\ payments' = [payments EXCEPT ![p].status = status]
  /\ reg' = RegAfterSettle(p, status)
  /\ used_count' = UsedAfterSettle(p, status)
  /\ UNCHANGED <<price, windowOpen, puts, isAuthenticated, page, dialog, flows>>
  /\ UNCHANGED <<guardVars, auxVars>>

\* DELETE /events/{id}/register: the explicit cancellation releases the seat.
CancelRegistration(u) ==
  /\ Holds(reg[u])
  /\ reg[u].id <= MaxCancels       \* the earlier Registrations were all cancelled
  /\ reg' = [reg EXCEPT ![u].status = "cancelled", ![u].failedPay = FALSE,
                        ![u].by = "none"]
  /\ UNCHANGED <<price, used_count, windowOpen, payments, puts, isAuthenticated, page, dialog, flows>>
  /\ UNCHANGED <<guardVars, auxVars>>

\* the registration deadline passes
WindowCloses ==
  /\ windowOpen
  /\ page.runs <= DeadlineRuns
  /\ windowOpen' = FALSE
  /\ UNCHANGED <<price, used_count, reg, payments, puts, isAuthenticated, page, dialog, flows>>
  /\ UNCHANGED <<guardVars, auxVars>>

PageNext ==
  \/ Reload
  \/ CheckRegistrationResponse
  \/ CheckRegistrationFailed
  \/ MainCTAUnauthenticated
  \/ \E f \in Flows : MainCTAFree(f)
  \/ MainCTAOpenDialog
  \/ \E code \in Codes : DialogType(code)
  \/ DialogVerify
  \/ DialogVerifyResponse
  \/ DialogVerifyNetworkError
  \/ DialogClose
  \/ \E f \in Flows : DialogContinue(f)
  \/ \E f \in Flows, d \in BOOLEAN : ServerRegister(f, d)
  \/ \E f \in Flows : RegisteredFree(f)
  \/ \E f \in Flows : RegisteredZeroAmount(f)
  \/ \E f \in Flows : RegisteredPay(f)
  \/ \E f \in Flows, m \in BOOLEAN : RegisterRefused(f, m)
  \/ \E f \in Flows, ok \in BOOLEAN, d \in BOOLEAN : ServerCreatePayment(f, ok, d)
  \/ \E f \in Flows : PaySession(f)
  \/ \E f \in Flows : PayFree(f)
  \/ \E f \in Flows, m \in BOOLEAN : PayRefused(f, m)
  \/ \E f \in Flows : FlowNetworkError(f)
  \/ \E id \in 1..MaxRuns, a \in BOOLEAN : ServerChangeStatus(id, a)
  \/ \E p \in 1..MaxPayments, st \in {"PAID", "FAILED"} : GatewayCallback(p, st)
  \/ \E u \in Users : CancelRegistration(u)
  \/ WindowCloses

PageSpecInit == GuardInit /\ PageInit /\ AuxFrozen

PageSpec == PageSpecInit /\ [][PageNext]_vars

\* ------------------------------------------------------------------------
\* Part III : the payment-result page (PaymentResult.tsx)
\* ------------------------------------------------------------------------
\* the state in which the browser was sent to the gateway: the user holds a
\* pending Registration and its Payment is PENDING
AtGateway ==
  /\ price = BasePrice /\ isAuthenticated = TRUE /\ windowOpen = TRUE
  /\ used_count = [c \in KnownCodes |-> 0]
  /\ reg = [u \in Users |->
              IF u = PageUser
              THEN [status |-> "pending", id |-> 1, ticket_id |-> 1, by |-> "none",
                    failedPay |-> FALSE, coupon |-> ""]
              ELSE NoReg]
  /\ payments = << [user |-> PageUser, regId |-> 1, status |-> "PENDING",
                    discount_code |-> "",
                    base_amount |-> BasePrice, discount_amount |-> 0,
                    amount |-> BasePrice] >>
  /\ puts = {}
  /\ page = [location |-> "gateway", open |-> FALSE, submitting |-> FALSE,
             alreadyRegistered |-> FALSE, regCheck |-> "done",
             registration_count |-> 0, loads |-> 1, runs |-> 1,
             toast |-> "none", ticket |-> 0]
  /\ dialog = FreshDialog
  /\ flows = [f \in Flows |-> IdleFlow]

ResultInit == GuardInit /\ AtGateway /\ AuxFrozen

\* the query parameter `status` as the page may receive it
StatusParams == {"success", "failed", "none"}

\* the query parameter `ref_id`: 0 for a missing one, the reference of a
\* Payment, or a reference the store does not know
RefParams == 0..(MaxPayments + 1)

\* PaymentResult: const ok = status === 'success' (PaymentResult.tsx:58),
\* which selects the banner (PaymentResult.tsx:174-183)
ok == resultPage.status = "success"

\* the page presents the payment as successful
PresentsSuccess == resultPage.open /\ ok

\* The browser opens /payments/result?status=..&ref_id=.. (redirect after the
\* callback, a reload, or a followed link): the parameters are read and the
\* effect sends getPaymentByRef when ref_id is present
\* (PaymentResult.tsx:26-38).
OpenResult(status, ref) ==
  /\ resultPage.opens < MaxOpens
  /\ resultPage' = [open |-> TRUE, status |-> status, refId |-> ref,
                    fetch |-> IF ref # 0 THEN "sent" ELSE "none",
                    fallback |-> <<>>, opens |-> resultPage.opens + 1]
  /\ UNCHANGED <<guardVars, pageVars, admVars, settleVars, quoteVars, clientVars>>

\* GET /payments/by-ref/{ref_id} is answered with the stored Payment and
\* setFallback keeps its event and amounts (PaymentResult.tsx:38-49).
ResultFetched ==
  /\ resultPage.fetch = "sent"
  /\ resultPage.refId \in 1..Len(payments)
  /\ resultPage' = [resultPage EXCEPT
       !.fetch = "done",
       !.fallback = << [base_amount |-> payments[resultPage.refId].base_amount,
                        discount_amount |-> payments[resultPage.refId].discount_amount,
                        amount |-> payments[resultPage.refId].amount] >>]
  /\ UNCHANGED <<guardVars, pageVars, admVars, settleVars, quoteVars, clientVars>>

\* getPaymentByRef fails (unknown reference, network): the catch is silent
\* (PaymentResult.tsx:50-52).
ResultFetchFailed ==
  /\ resultPage.fetch = "sent"
  /\ resultPage' = [resultPage EXCEPT !.fetch = "failed"]
  /\ UNCHANGED <<guardVars, pageVars, admVars, settleVars, quoteVars, clientVars>>

ResultNext ==
  \/ \E status \in StatusParams, ref \in RefParams : OpenResult(status, ref)
  \/ ResultFetched
  \/ ResultFetchFailed
  \/ \E p \in 1..MaxPayments, st \in {"PAID", "FAILED"} : GatewayCallback(p, st)

ResultSpec == ResultInit /\ [][ResultNext]_vars

\* ------------------------------------------------------------------------
\* Part IV : the Admission Controller under concurrent callers
\* ------------------------------------------------------------------------
\* the indices of the non-cancelled Registrations
Seats == {i \in 1..Len(registrations) : Holds(registrations[i])}

HoldsSeat_never(u) == FALSE

\* the user holds a non-cancelled Registration of the event
HoldsSeat(u) == \E i \in Seats : registrations[i].user = u

AdmInit ==
  /\ GuardInit
  /\ price \in {0, BasePrice}
  /\ isAuthenticated = TRUE
  /\ PageStoreInit
  /\ resultPage = NoResultPage
  /\ registrations = <<>>
  /\ attempts = NoAttempts
  /\ deliveries = NoDeliveries
  /\ issueCalls = [u \in Users |-> 0]
  /\ quote = NoQuote
  /\ paymentOut = NoPaymentOut
  /\ ClientFrozen

\* a client sends POST /events/{id}/register for user u (api.ts:413-421); the
\* calls already sent stay outstanding
Issue(a, u) ==
  /\ attempts[a].state = "none"
  /\ \A b \in Attempts : b < a => attempts[b].state # "none"
  /\ attempts' = [attempts EXCEPT ![a] = [user |-> u, state |-> "sent", result |-> "none"]]
  /\ UNCHANGED <<registrations, resultVars, settleVars, quoteVars, clientVars, guardVars, pageVars>>

\* register(event_id, user_id) of one outstanding call, as a single atomic
\* unit against the store
Register(a) ==
  /\ attempts[a].state = "sent"
  /\ LET u == attempts[a].user
         result == Admission(windowOpen, HoldsSeat(u), Cardinality(Seats))
     IN /\ registrations' =
             IF result = "created"
             THEN Append(registrations,
                         [user |-> u,
                          status |-> IF price = 0 THEN "confirmed" ELSE "pending"])
             ELSE registrations
        /\ attempts' = [attempts EXCEPT ![a].state = "done", ![a].result = result]
  /\ UNCHANGED <<resultVars, settleVars, quoteVars, clientVars, guardVars, pageVars>>

\* DELETE /events/{id}/register of user u (api.ts:439-443): the seat is released
CancelSeat(u) ==
  /\ Cardinality({i \in 1..Len(registrations) :
                    registrations[i].status = "cancelled"}) < MaxCancels
  /\ \E i \in Seats :
       /\ registrations[i].user = u
       /\ registrations' = [registrations EXCEPT ![i].status = "cancelled"]
  /\ UNCHANGED <<attempts, resultVars, settleVars, quoteVars, clientVars, guardVars, pageVars>>

AdmNext ==
  \/ \E a \in Attempts, u \in AdmUsers : Issue(a, u)
  \/ \E a \in Attempts : Register(a)
  \/ \E u \in AdmUsers : CancelSeat(u)
  \/ WindowCloses

AdmissionSpec == AdmInit /\ [][AdmNext]_vars

\* ------------------------------------------------------------------------
\* Part V : the Settlement Reconciler under repeated deliveries
\* ------------------------------------------------------------------------
\* a PENDING Payment of the pending Registration of PageUser
PendingPayment(code) ==
  [user |-> PageUser, regId |-> 1, status |-> "PENDING", discount_code |-> code,
   base_amount |-> BasePrice, discount_amount |-> DiscountAmount(BasePrice, code),
   amount |-> FinalPrice(BasePrice, code)]

\* the user holds a pending Registration made with a code (ticket assigned at
\* creation or not yet) and went to the gateway twice for it
SettleInit ==
  /\ GuardInit
  /\ price = BasePrice /\ isAuthenticated = TRUE /\ windowOpen = TRUE
  /\ used_count = [c \in KnownCodes |-> 0]
  /\ \E t \in {0, 1}, code \in {"", "OFF20"} :
       /\ reg = [u \in Users |->
                   IF u = PageUser
                   THEN [status |-> "pending", id |-> 1, ticket_id |-> t, by |-> "none",
                         failedPay |-> FALSE, coupon |-> code]
                   ELSE NoReg]
       /\ payments = << PendingPayment(code), PendingPayment(code) >>
  /\ puts = {}
  /\ page = [Mounted(0, 1, 1) EXCEPT !.location = "gateway", !.regCheck = "done"]
  /\ dialog = FreshDialog
  /\ flows = [f \in Flows |-> IdleFlow]
  /\ resultPage = NoResultPage
  /\ registrations = <<>>
  /\ attempts = NoAttempts
  /\ deliveries = NoDeliveries
  /\ issueCalls = [u \in Users |-> 0]
  /\ quote = NoQuote
  /\ paymentOut = NoPaymentOut
  /\ ClientFrozen

SettleOutcome_overwrite(ref, status) ==
  IF ref \notin 1..Len(payments) THEN "UnknownReferenceError" ELSE "settled"

\* settle(ref_id, gateway_status, amount): what the call does
SettleOutcome(ref, status) ==
  IF ref \notin 1..Len(payments) THEN "UnknownReferenceError"
  ELSE IF IsTerminal(payments[ref].status)
  THEN IF payments[ref].status = status THEN "unchanged" ELSE "SettlementConflictError"
  ELSE "settled"

\* the gateway (or a retry of its webhook) sends a settle call; the calls
\* already sent stay outstanding
Deliver(d, ref, status) ==
  /\ deliveries[d].state = "none"
  /\ \A e \in Deliveries : e < d => deliveries[e].state # "none"
  /\ deliveries' = [deliveries EXCEPT ![d] =
       [ref |-> ref, status |-> status, state |-> "sent", outcome |-> "none"]]
  /\ UNCHANGED <<issueCalls, resultVars, admVars, quoteVars, clientVars, guardVars, pageVars>>

\* settle of one outstanding call, as one atomic unit keyed by ref_id
SettleCall(d) ==
  /\ deliveries[d].state = "sent"
  /\ LET ref == deliveries[d].ref
         status == deliveries[d].status
         answer == SettleOutcome(ref, status)
     IN /\ deliveries' = [deliveries EXCEPT ![d].state = "done", ![d].outcome = answer]
        /\ IF answer = "settled"
           THEN /\ payments' = [payments EXCEPT ![ref].status = status]
                /\ reg' = RegAfterSettle(ref, status)
                /\ used_count' = UsedAfterSettle(ref, status)
                /\ issueCalls' =
                     IF /\ SettlesRegistration(ref) /\ status = "PAID"
                        /\ reg[payments[ref].user].ticket_id = 0
                     THEN [issueCalls EXCEPT ![payments[ref].user] = @ + 1]
                     ELSE issueCalls
           ELSE UNCHANGED <<payments, reg, used_count, issueCalls>>
  /\ UNCHANGED <<price, windowOpen, puts, isAuthenticated, page, dialog, flows>>
  /\ UNCHANGED <<resultVars, admVars, quoteVars, clientVars, guardVars>>

SettleNext ==
  \/ \E d \in Deliveries, ref \in 1..(Len(payments) + 1), status \in Terminal :
       Deliver(d, ref, status)
  \/ \E d \in Deliveries : SettleCall(d)

SettleSpec == SettleInit /\ [][SettleNext]_vars

\* ------------------------------------------------------------------------
\* Part VI : the quote of the Discount Resolver
\* ------------------------------------------------------------------------
\* base amounts and valid discount rules a quote is asked for
QuoteBases == {0, 100, 30000, 100000}

QuoteRules ==
  [is_percentage : BOOLEAN, rate : {0, 20, 50, 100}, fixed : {0, 5000, 200000},
   cap : {0, 10000, 1000000}]

QuoteInit ==
  /\ GuardInit /\ PageFrozen
  /\ resultPage = NoResultPage
  /\ registrations = <<>>
  /\ attempts = NoAttempts
  /\ deliveries = NoDeliveries
  /\ issueCalls = [u \in Users |-> 0]
  /\ \E base \in QuoteBases, rule \in QuoteRules :
       quote = [base_amount |-> base, rule |-> rule, state |-> "asked",
                discount_amount |-> 0, final_price |-> 0]
  /\ paymentOut = NoPaymentOut
  /\ ClientFrozen

\* quote(event_id, code) for a code whose rule is quote.rule: a pure read
QuoteAnswered ==
  /\ quote.state = "asked"
  /\ quote' = [quote EXCEPT !.state = "answered",
                            !.discount_amount = RuleDiscount(quote.base_amount, quote.rule),
                            !.final_price = RuleFinal(quote.base_amount, quote.rule)]
  /\ UNCHANGED <<paymentOut, resultVars, admVars, settleVars, clientVars, guardVars, pageVars>>

\* createPayment for the quoted code recomputes the amounts of the Payment it
\* answers with (CreatePaymentOut: base_amount, discount_amount, amount)
PaymentAmountsComputed ==
  /\ quote.state = "answered"
  /\ paymentOut.state = "none"
  /\ paymentOut' = [state |-> "answered",
                    base_amount |-> quote.base_amount,
                    discount_amount |-> RuleDiscount(quote.base_amount, quote.rule),
                    amount |-> RuleFinal(quote.base_amount, quote.rule)]
  /\ UNCHANGED <<quote, resultVars, admVars, settleVars, clientVars, guardVars, pageVars>>

QuoteNext ==
  \/ QuoteAnswered
  \/ PaymentAmountsComputed

QuoteSpec == QuoteInit /\ [][QuoteNext]_vars

\* ------------------------------------------------------------------------
\* Part VII : the requests built by ApiClient.request
\* ------------------------------------------------------------------------
\* { ...a, ...b }: the entries of b override those of a
Spread(a, b) == [n \in HeaderNames |-> IF b[n] # Absent THEN b[n] ELSE a[n]]

\* getAuthHeaders() (api.ts:14-20) with an access token stored
AuthHeaders(token) ==
  [n \in HeaderNames |->
     IF n = "Content-Type" THEN "application/json"
     ELSE IF n = "Authorization" /\ token # Absent THEN token
     ELSE Absent]

\* config.headers of the first attempt (api.ts:62-67)
FirstHeaders(options) == Spread(AuthHeaders("Bearer old"), options.headers)

\* retryConfig.headers (api.ts:81-86 leader, 102-108 follower)
RetryHeaders(options, token) ==
  Spread(options.headers,
         [n \in HeaderNames |-> IF n = "Authorization" THEN token ELSE Absent])

\* the options a caller hands to request
RequestOptions ==
  [method : {"GET", "POST"}, body : {Absent, "json"},
   headers : [HeaderNames -> {Absent, "application/json", "custom"}]]

HeaderInit ==
  /\ GuardInit /\ PageFrozen
  /\ resultPage = NoResultPage
  /\ registrations = <<>>
  /\ attempts = NoAttempts
  /\ deliveries = NoDeliveries
  /\ issueCalls = [u \in Users |-> 0]
  /\ quote = NoQuote
  /\ paymentOut = NoPaymentOut
  /\ \E o \in RequestOptions : exchange = [NoExchange EXCEPT !.options = o]
  /\ listing = NoListing

\* request builds config and sends the first attempt (api.ts:59-69)
SendFirst ==
  /\ exchange.state = "none"
  /\ exchange' = [exchange EXCEPT !.state = "sent",
                                  !.first = FirstHeaders(exchange.options)]
  /\ UNCHANGED <<resultVars, admVars, settleVars, quoteVars, guardVars, pageVars, listing>>

\* the first attempt was answered 401 and the refresh returned a new token:
\* the leader (api.ts:79-87) or the follower's callback (api.ts:100-109)
\* builds retryConfig from the same url and options and sends it
SendRetry(r) ==
  /\ exchange.state = "sent"
  /\ exchange' = [exchange EXCEPT !.state = "retried", !.role = r,
                                  !.retry = RetryHeaders(exchange.options, "Bearer new")]
  /\ UNCHANGED <<resultVars, admVars, settleVars, quoteVars, guardVars, pageVars, listing>>

HeaderNext ==
  \/ SendFirst
  \/ \E r \in {"leader", "follower"} : SendRetry(r)

HeaderSpec == HeaderInit /\ [][HeaderNext]_vars

\* ------------------------------------------------------------------------
\* Part VIII : availability of an event, as the list card (Events.tsx) and
\*             the event page (EventDetail.tsx) compute it
\* ------------------------------------------------------------------------
\* Number(v): Number(null) is 0
ToNumber(v) == IF v = NoValue THEN 0 ELSE v

\* new Date(v).getTime(): new Date(null) is the epoch, time 0
DateTime(v) == IF v = NoValue THEN 0 ELSE v

\* v || 0
OrZero(v) == IF v = NoValue THEN 0 ELSE v

\* spotsLeft (Events.tsx:20-25)
spotsLeft(event) == ToNumber(event.capacity) - ToNumber(event.registration_count)

\* timeOk of isAvailable (Events.tsx:27-29)
timeOk(event, now) == DateTime(event.registration_end_date) > now

\* isAvailable (Events.tsx:26-32)
isAvailable(event, now) == timeOk(event, now) /\ spotsLeft(event) > 0

\* notAvailableReasonFa (Events.tsx:33-40)
notAvailableReasonFa(event, now) ==
  IF DateTime(event.registration_end_date) <= now THEN "registration ended"
  ELSE IF spotsLeft(event) <= 0 THEN "capacity full"
  ELSE "not available"

\* rsTs, deadlineTs (EventDetail.tsx:233-239): a missing date stays null
rsTs(event) == event.registration_start_date

deadlineTs(event) == event.registration_end_date

\* meta.registrationOpen (EventDetail.tsx:271)
registrationOpen(rs, re, nowTs) ==
  (rs = NoValue \/ nowTs >= rs) /\ (re = NoValue \/ nowTs <= re)

\* meta.full (EventDetail.tsx:272-274)
full(event) ==
  LET unlimited == event.capacity = NoValue
      remaining == Max(0, OrZero(event.capacity) - OrZero(event.registration_count))
  IN ~unlimited /\ remaining <= 0

\* the instants told apart
Times == 1..MaxTime

\* the events the API can return
EventInputs ==
  [capacity : {NoValue} \cup (0..MaxSeats),
   registration_count : 0..MaxSeats,
   registration_start_date : {NoValue} \cup Times,
   registration_end_date : {NoValue} \cup Times]

ListingInit ==
  /\ GuardInit /\ PageFrozen
  /\ resultPage = NoResultPage
  /\ registrations = <<>>
  /\ attempts = NoAttempts
  /\ deliveries = NoDeliveries
  /\ issueCalls = [u \in Users |-> 0]
  /\ quote = NoQuote
  /\ paymentOut = NoPaymentOut
  /\ exchange = NoExchange
  /\ \E e \in EventInputs, t \in Times :
       listing = [NoListing EXCEPT !.event = e, !.now = t]

\* the event page computes meta (EventDetail.tsx:267-276)
RenderDetail ==
  /\ ~listing.detail
  /\ listing' = [listing EXCEPT
       !.detail = TRUE,
       !.meta = [registrationOpen |->
                   registrationOpen(rsTs(listing.event), deadlineTs(listing.event),
                                    listing.now),
                 full |-> full(listing.event)]]
  /\ UNCHANGED <<resultVars, admVars, settleVars, quoteVars, guardVars, pageVars, exchange>>

\* the list renders the card of the event (Events.tsx:20-40)
RenderCard ==
  /\ ~listing.card
  /\ listing' = [listing EXCEPT
       !.card = TRUE,
       !.left = spotsLeft(listing.event),
       !.timeOk = timeOk(listing.event, listing.now),
       !.available = isAvailable(listing.event, listing.now),
       !.reason = IF isAvailable(listing.event, listing.now) THEN "none"
                  ELSE notAvailableReasonFa(listing.event, listing.now)]
  /\ UNCHANGED <<resultVars, admVars, settleVars, quoteVars, guardVars, pageVars, exchange>>

ListingNext ==
  \/ RenderDetail
  \/ RenderCard

ListingSpec == ListingInit /\ [][ListingNext]_vars

\* the scheduling of the client: a continuation that can run does run, and
\* the network answers every request it does not leave unanswered for good
FairSpec == Spec /\ WF_vars(Next)

\* ------------------------------------------------------------------------
\* Part I : properties
\* ------------------------------------------------------------------------
NoTokens == [access_token |-> NoToken, refresh_token |-> NoToken]

\* C1: when the first NCalls calls were outstanding together with the same
\* access token, every one of them was answered 401 (a refresh token being
\* stored) and no refresh failed, exactly one refresh was started in total,
\* whatever the order of the 401 responses and the refresh response.
C1_OneRefreshForConcurrent401s ==
  ( /\ allInFlight
    /\ starts = NCalls
    /\ \A c \in Calls : kind[c] = "request" /\ saw401[c]
    /\ \A r \in RefreshIds : refreshState[r] \notin {"rejected", "failed", "hung"} )
  => refreshCount = 1

\* C2: at every moment at most one refresh operation is outstanding.
C2_AtMostOneRefreshInFlight == Cardinality(RefreshInFlight) <= 1

\* C3: once a refresh has failed, every follower that was parked while it was
\* outstanding has finished with the session-expired error and has not
\* retried; none is left waiting.
C3_FollowersReleasedOnFailure ==
  \A f \in Calls, r \in RefreshIds :
    (role[f] = "follower" /\ r \in joined[f] /\ refreshState[r] \in {"rejected", "failed"})
    => (pc[f] = "done" /\ outcome[f] = "session_expired" /\ sent[f] = 1)

\* C4: once a refresh has succeeded, every follower parked while it was
\* outstanding has sent exactly one retry, carrying the token of that refresh,
\* and so has its leader.
C4_RetryOnceWithRefreshedToken ==
  \A r \in RefreshIds :
    refreshState[r] = "ok" =>
      /\ \A f \in Calls : (role[f] = "follower" /\ r \in joined[f])
                            => (sent[f] = 2 /\ sentToken[f] = IssuedToken(r))
      /\ \A l \in Calls : leads[l] = r
                            => (sent[l] = 2 /\ sentToken[l] = IssuedToken(r))

\* C5: a refresh that does not resolve is eventually treated as a failure:
\* its leader and every follower parked on it finish.
C5_HungRefreshFailsClosed ==
  \A r \in RefreshIds :
    (refreshState[r] = "hung") ~>
       (\A c \in Calls : (leads[c] = r \/ r \in joined[c]) => pc[c] = "done")

\* C6: a call sends its request at most twice, and a refresh is started or
\* waited for only on behalf of a first attempt: nothing that happens to the
\* retry leads to another refresh or another retry of that call.
C6_AtMostOneRetry ==
  \A c \in Calls :
    /\ sent[c] <= 2
    /\ pc[c] \in {"refreshing", "waiting"} => sent[c] = 1
    /\ pc[c] = "retry" => sent[c] = 2

\* a retry answered 401 was surfaced as an error while a refresh token is stored
C6_Witness ==
  \E c \in Calls :
    /\ role[c] # "none" /\ sent[c] = 2 /\ pc[c] = "done"
    /\ outcome[c] = "unauthorized"
    /\ getItem(localStorage, "refresh_token") # NoToken

\* C7: every call that carried the bearer credential and was answered 401
\* while a refresh token was stored went through the refresh-then-retry
\* branch before it finished.
C7_EveryBearerCallGuarded ==
  \A c \in Calls : (saw401[c] /\ pc[c] = "done") => role[c] # "none"

\* C8: the session-expired error is produced only by the step in which the
\* refresh endpoint rejects the leader's refresh; that step removes both
\* stored tokens; while no refresh token is stored no refresh starts; a
\* successful refresh replaces both stored tokens by the new pair.
C8_SessionExpiry ==
  [][ /\ \A c \in Calls :
           (outcome[c] # "session_expired" /\ outcome'[c] = "session_expired")
           => (leads[c] # 0 /\ refreshState[leads[c]] = "inflight"
                            /\ refreshState'[leads[c]] = "rejected")
      /\ \A r \in RefreshIds :
           (refreshState[r] # "rejected" /\ refreshState'[r] = "rejected")
           => (/\ localStorage' = NoTokens
               /\ \E c \in Calls : leads[c] = r /\ outcome'[c] = "session_expired")
      /\ getItem(localStorage, "refresh_token") = NoToken => refreshCount' = refreshCount
      /\ \A r \in RefreshIds :
           (refreshState[r] # "ok" /\ refreshState'[r] = "ok")
           => localStorage' = [access_token |-> IssuedToken(r),
                               refresh_token |-> IssuedToken(r)]
    ]_vars

\* a refresh was rejected, its leader got the session-expired error, and a
\* later call answered 401 finished without starting a refresh
C8_Witness ==
  \E c, d \in Calls :
    /\ leads[c] # 0 /\ refreshState[leads[c]] = "rejected"
    /\ outcome[c] = "session_expired"
    /\ kind[d] = "request" /\ role[d] = "none" /\ outcome[d] = "unauthorized"
    /\ localStorage = NoTokens

\* C22: whenever no refresh is outstanding the subscriber list is empty:
\* the followers of a refresh cycle are removed from the list when the cycle
\* ends, whether it succeeded or failed.
C22_NoSubscribersBetweenCycles ==
  RefreshInFlight = {} => refreshSubscribers = <<>>

\* C23: isRefreshing is true exactly while a refresh operation is
\* outstanding.
C23_FlagTracksRefresh ==
  isRefreshing <=> (RefreshInFlight # {})

\* the access tokens of the refreshes that have succeeded so far
OkTokens == {IssuedToken(r) : r \in {q \in RefreshIds : refreshState[q] = "ok"}}

\* C28: when a refresh succeeds, both new tokens are in storage by the time
\* the flag is cleared, the followers are notified and the leader retries;
\* every retry is sent with the token of the refresh that released it; and a
\* request started after a successful refresh reads from storage a token at
\* least as new as that of every refresh that has succeeded.
C28_TokensStoredBeforeRetry ==
  [][/\ \A r \in RefreshIds :
          (refreshState[r] # "ok" /\ refreshState'[r] = "ok")
          => /\ getItem(localStorage', "access_token") = IssuedToken(r)
             /\ getItem(localStorage', "refresh_token") = IssuedToken(r)
     /\ \A d \in Calls :
          (pc[d] # "retry" /\ pc'[d] = "retry")
          => \E r \in RefreshIds :
               /\ refreshState[r] # "ok" /\ refreshState'[r] = "ok"
               /\ sentToken'[d] = IssuedToken(r)
     /\ \A c \in Calls :
          (pc[c] \in {"idle", "done"} /\ pc'[c] = "fetch" /\ sentToken'[c] # NoToken)
          => \A t \in OkTokens : sentToken'[c] >= t]_vars

\* ------------------------------------------------------------------------
\* Part II : properties
\* ------------------------------------------------------------------------
\* C9: a run of the register-and-pay flow whose register request met the
\* user's pending Registration after a failed payment attempt (seat held,
\* window open, nothing cancelled) and was answered goes on to createPayment.
C9_RetryReachesCreatePayment ==
  \A f \in Flows : (flows[f].pc = "done" /\ flows[f].held) => flows[f].calledPay

\* C10: the Registration of a priced event is confirmed only by settlement of
\* a PAID payment or by the store's own zero-amount computation in
\* createPayment, never by a status change the client asked for.
C10_ConfirmedOnlyByStore ==
  \A u \in Users :
    (price > 0 /\ reg[u].status = "confirmed") => reg[u].by \in {"settle", "serverZero"}

\* the document is unloaded in this step (reload, or the redirect of a run)
DocumentUnloads(f) ==
  \/ page'.loads # page.loads
  \/ page'.location = "gateway" /\ ~(flows[f].pc = "pay_resp" /\ flows[f].resp = "session")

\* C12: a run sends createPayment only as the continuation of a
\* registerForEvent that was answered with the created Registration; the
\* browser is sent to the gateway only by a run whose createPayment returned a
\* session, and a Payment with a non-zero amount is then stored; a run whose
\* registerForEvent failed ends without createPayment and without redirect;
\* the store creates a Payment only for a createPayment sent that way.
C12_PayOnlyAfterRegistered ==
  [][ /\ \A f \in Flows :
           (flows'[f].pc = "pay_req" /\ flows[f].pc # "pay_req")
           => (flows[f].pc = "reg_resp" /\ flows[f].resp = "created")
      /\ (page'.location = "gateway" /\ page.location # "gateway")
           => /\ \E f \in Flows : flows[f].pc = "pay_resp" /\ flows[f].resp = "session"
              /\ \E p \in 1..Len(payments) :
                    payments[p].amount > 0 /\ payments[p].status # "INIT"
      /\ \A f \in Flows :
           (flows[f].pc = "reg_resp" /\ flows[f].resp # "created" /\ flows'[f] # flows[f])
           => (/\ flows'[f].pc \in {"idle", "done"}
               /\ payments' = payments
               /\ page'.location = "gateway" => DocumentUnloads(f))
      /\ Len(payments') > Len(payments)
           => \E f \in Flows : flows[f].pc = "pay_req" /\ flows[f].calledPay
    ]_vars

\* the browser was sent to the gateway for a stored Payment of non-zero amount
C12_Witness ==
  /\ page.location = "gateway"
  /\ \E p \in 1..Len(payments) : payments[p].status = "PENDING" /\ payments[p].amount > 0
  /\ reg[PageUser].status = "pending"

\* C13: the continuation of a createPayment answered without session URL (or
\* with amount 0) navigates to the success page with the ticket id of the
\* Registration returned by registerForEvent and the success toast: it does
\* not redirect to the gateway, reports no error and adds no Payment.
C13_NoSessionIsFreeCompletion ==
  [][ \A f \in Flows :
        (flows[f].pc = "pay_resp" /\ flows[f].resp = "free" /\ flows'[f] # flows[f])
        => \/ /\ page'.location = "success"
              /\ page'.ticket = flows[f].ticket /\ page'.ticket # 0
              /\ page'.toast = "success"
              /\ payments' = payments
           \/ DocumentUnloads(f)
    ]_vars

\* a run completed that way: the store confirmed the Registration in
\* createPayment and the success page carries its ticket id
C13_Witness ==
  /\ page.location = "success" /\ page.toast = "success"
  /\ reg[PageUser].status = "confirmed" /\ reg[PageUser].by = "serverZero"
  /\ page.ticket = reg[PageUser].ticket_id
  /\ payments = <<>>

\* C14: for an event of price 0 every held Registration is confirmed (at
\* creation) and carries a ticket id, no Payment and no status change request
\* exists, no run is at createPayment and the browser is never at the gateway;
\* the continuation of a successful registerForEvent goes to the success page
\* with the returned ticket id.
C14_FreeEventRegistersOnly ==
  /\ [](price = 0 =>
          /\ \A u \in Users :
               Holds(reg[u]) => (/\ reg[u].status = "confirmed" /\ reg[u].by = "free"
                                 /\ reg[u].ticket_id # 0)
          /\ payments = <<>> /\ puts = {}
          /\ \A f \in Flows : flows[f].pc \notin {"pay_req", "pay_resp"}
                               /\ flows[f].kind # "paid"
          /\ page.location # "gateway"
          /\ page.location = "success" => page.ticket \in 1..reg[PageUser].id)
  /\ [][ price = 0 =>
          \A f \in Flows :
            (flows[f].pc = "reg_resp" /\ flows[f].resp = "created" /\ flows'[f] # flows[f])
            => \/ page'.location = "success" /\ page'.ticket = flows[f].ticket
                                             /\ page'.ticket # 0
               \/ DocumentUnloads(f)
      ]_vars

\* the free registration completed: confirmed Registration, its ticket id on
\* the success page, no Payment
C14_Witness ==
  /\ price = 0
  /\ page.location = "success"
  /\ reg[PageUser].status = "confirmed" /\ reg[PageUser].ticket_id # 0
  /\ page.ticket = reg[PageUser].ticket_id
  /\ payments = <<>>

\* C15: in every step the usage counter of a code grows by one if the step
\* confirms a Registration whose run used that code, and is unchanged
\* otherwise (in particular in the answer to a coupon check), on every
\* confirming path, also when the discounted final price is 0.
C15_UsageCountedAtConfirmation ==
  [][ \A c \in KnownCodes :
        used_count'[c] = used_count[c] +
          (IF \E u \in Users : /\ reg[u].status # "confirmed"
                               /\ reg'[u].status = "confirmed"
                               /\ reg'[u].coupon = c
           THEN 1 ELSE 0)
    ]_vars

\* C25: the final price a run received from the coupon dialog belongs to
\* the coupon code it received with it: the final price of the quote of
\* exactly that code, or the base price.
C25_FinalPriceBelongsToCode ==
  \A f \in Flows :
    (flows[f].pc = "reg_req" /\ flows[f].kind = "paid")
    => \/ flows[f].final = Toman(price)
       \/ Quote(flows[f].coupon) # Null /\ flows[f].final = Quote(flows[f].coupon)

\* the runs of handleMainCTA / handleContinueFromModal of the mounted page
\* that have not finished
Submitting == {f \in Flows : flows[f].live /\ flows[f].pc \notin {"idle", "done"}}

\* C26: on the event page at most one register / payment submission is in
\* flight: no second run is started while one has not finished.
C26_OneSubmissionInFlight == Cardinality(Submitting) <= 1

\* C27: the page navigates to the success screen (goSuccess) only when the
\* user's Registration is confirmed in the store at that moment: the request
\* that confirms it was handled before the navigation.  (A Registration the
\* user cancelled explicitly in the meantime is left aside.)
C27_SuccessOnlyWhenConfirmed ==
  [][(page.location # "success" /\ page'.location = "success")
       => reg'[PageUser].status \in {"confirmed", "cancelled"}]_vars

\* ------------------------------------------------------------------------
\* Part IV : properties
\* ------------------------------------------------------------------------
Issued == {a \in Attempts : attempts[a].state # "none"}

WithResult(r) == {a \in Attempts : attempts[a].result = r}

\* every call made has been handled, the callers are distinct, the window
\* was open for each and no seat was released
AllAdmissionsDecided ==
  /\ \A a \in Issued : attempts[a].state = "done"
  /\ \A a, b \in Issued : a # b => attempts[a].user # attempts[b].user
  /\ WithResult("RegistrationClosedError") = {}
  /\ \A i \in 1..Len(registrations) : registrations[i].status # "cancelled"

\* C16: the number of non-cancelled Registrations never exceeds the
\* capacity, also while seats are released; and when M > Capacity calls of
\* distinct users have all been handled (window open, no seat released),
\* exactly Capacity of them succeeded and M - Capacity got
\* CapacityExceededError, in whatever order they were handled.
C16_CapacityInvariant ==
  /\ Cardinality(Seats) <= Capacity
  /\ (AllAdmissionsDecided /\ Cardinality(Issued) > Capacity)
       => /\ Cardinality(WithResult("created")) = Capacity
          /\ Cardinality(WithResult("CapacityExceededError"))
               = Cardinality(Issued) - Capacity

\* MaxAttempts calls of distinct users were outstanding together and have
\* all been handled: more callers than seats
C16_Witness ==
  /\ AllAdmissionsDecided
  /\ Cardinality(Issued) = MaxAttempts /\ MaxAttempts > Capacity
  /\ Cardinality(WithResult("CapacityExceededError")) = MaxAttempts - Capacity

\* C17: no user ever holds two non-cancelled Registrations of the event; a
\* register call handled while its user holds one (window open) is answered
\* AlreadyRegisteredError and creates nothing, also when it was sent while
\* the first call was still outstanding.
C17_OneRegistrationPerUser ==
  /\ [](\A u \in AdmUsers :
          Cardinality({i \in Seats : registrations[i].user = u}) <= 1)
  /\ [][ \A a \in Attempts :
           (/\ attempts[a].state = "sent" /\ attempts'[a].state = "done"
            /\ windowOpen
            /\ \E i \in Seats : registrations[i].user = attempts[a].user)
           => (/\ attempts'[a].result = "AlreadyRegisteredError"
               /\ registrations' = registrations)
      ]_vars

\* two calls of the same user were sent, one created the Registration and
\* the other was refused
C17_Witness ==
  \E a, b \in Attempts :
    /\ a # b /\ attempts[a].user = attempts[b].user
    /\ attempts[a].result = "created"
    /\ attempts[b].result = "AlreadyRegisteredError"
    /\ Cardinality(Seats) = 1

\* ------------------------------------------------------------------------
\* Part V : properties
\* ------------------------------------------------------------------------
\* the settle call d is handled in this step
Handled(d) == deliveries[d].state = "sent" /\ deliveries'[d].state = "done"

SettleChangesNothing ==
  /\ payments' = payments /\ reg' = reg
  /\ used_count' = used_count /\ issueCalls' = issueCalls

\* C18: a settle call that meets its Payment already in the delivered
\* terminal status changes nothing (Payment, Registration, usage counters,
\* tickets) and returns the existing outcome, however many calls with that
\* ref_id and status are outstanding or were handled before; no Registration
\* gets a second ticket and no code is counted twice for it.
C18_SettleIdempotent ==
  /\ [][ \A d \in Deliveries :
           (/\ Handled(d)
            /\ deliveries[d].ref \in 1..Len(payments)
            /\ payments[deliveries[d].ref].status = deliveries[d].status)
           => (SettleChangesNothing /\ deliveries'[d].outcome = "unchanged")
      ]_vars
  /\ [](/\ \A u \in Users : issueCalls[u] <= 1
         /\ \A c \in KnownCodes : used_count[c] <= 1)

\* the same ref_id was delivered twice with PAID: the first call settled,
\* the second changed nothing; one ticket, one count
C18_Witness ==
  \E d, e \in Deliveries :
    /\ d # e /\ deliveries[d].ref = deliveries[e].ref
    /\ deliveries[d].status = "PAID" /\ deliveries[e].status = "PAID"
    /\ deliveries[d].outcome = "settled" /\ deliveries[e].outcome = "unchanged"
    /\ issueCalls[PageUser] = 1 /\ used_count["OFF20"] = 1
    /\ reg[PageUser].status = "confirmed"

\* C19: a settle call that meets its Payment in a terminal state other than
\* the delivered status returns SettlementConflictError, a settle call with
\* an unknown ref_id returns UnknownReferenceError, and both leave Payments,
\* Registrations, counters and tickets unchanged.
C19_ConflictAndUnknownReference ==
  [][ \A d \in Deliveries :
        /\ (/\ Handled(d)
             /\ deliveries[d].ref \in 1..Len(payments)
             /\ payments[deliveries[d].ref].status \in Terminal
             /\ payments[deliveries[d].ref].status # deliveries[d].status)
            => (SettleChangesNothing
                /\ deliveries'[d].outcome = "SettlementConflictError")
        /\ (Handled(d) /\ deliveries[d].ref \notin 1..Len(payments))
            => (SettleChangesNothing
                /\ deliveries'[d].outcome = "UnknownReferenceError")
    ]_vars

\* a PAID Payment met a FAILED delivery, and an unknown ref_id was delivered
C19_Witness ==
  \E d, e \in Deliveries :
    /\ deliveries[d].outcome = "SettlementConflictError"
    /\ payments[deliveries[d].ref].status = "PAID" /\ deliveries[d].status = "FAILED"
    /\ deliveries[e].outcome = "UnknownReferenceError"

\* ------------------------------------------------------------------------
\* Part VI : properties
\* ------------------------------------------------------------------------
\* the rule of the spec's example: 20% off, cap 10000
IsOff20(rule) == rule.is_percentage /\ rule.rate = 20 /\ rule.cap = 10000

\* C20: every answered quote has discount_amount = min(cap, percentage ?
\* base*rate : fixed) and final_price = max(0, base_amount - discount_amount);
\* the 20% rule with cap 10000 gives 10000 and 90000 on base 100000, and
\* 6000 and 24000 on base 30000.
C20_QuoteFormula ==
  quote.state = "answered" =>
    LET raw == IF quote.rule.is_percentage
               THEN (quote.base_amount * quote.rule.rate) \div 100
               ELSE quote.rule.fixed
    IN /\ quote.discount_amount = (IF quote.rule.cap <= raw THEN quote.rule.cap ELSE raw)
       /\ quote.final_price = (IF quote.base_amount - quote.discount_amount >= 0
                               THEN quote.base_amount - quote.discount_amount ELSE 0)
       /\ (IsOff20(quote.rule) /\ quote.base_amount = 100000)
            => (quote.discount_amount = 10000 /\ quote.final_price = 90000)
       /\ (IsOff20(quote.rule) /\ quote.base_amount = 30000)
            => (quote.discount_amount = 6000 /\ quote.final_price = 24000)

\* the quote of the example rule on base 100000 was answered: the cap binds
C20_Witness ==
  /\ quote.state = "answered"
  /\ IsOff20(quote.rule) /\ quote.base_amount = 100000
  /\ quote.discount_amount = 10000 /\ quote.final_price = 90000

C24_RetryKeepsRequest ==
  exchange.state = "retried" =>
    /\ exchange.retry["Authorization"] = "Bearer new"
    /\ \A n \in HeaderNames \ {"Authorization"} : exchange.retry[n] = exchange.first[n]

\* ------------------------------------------------------------------------
\* Part III : properties
\* ------------------------------------------------------------------------
\* C11: whenever the payment-result page presents success for a Payment of
\* the store, the stored status of that Payment is PAID, whatever the order
\* of the gateway callback and the page's request.
C11_SuccessOnlyForPaid ==
  (PresentsSuccess /\ resultPage.refId \in 1..Len(payments))
    => payments[resultPage.refId].status = "PAID"
\* ------------------------------------------------------------------------
\* Part VIII : properties
\* ------------------------------------------------------------------------
\* both components have rendered the same event at the same instant
Rendered == listing.detail /\ listing.card

\* C29: a null capacity means unlimited: neither component treats such an
\* event as full, and for every capacity and registration_count the event
\* page (meta.full) and the list card (no spots left) agree on full / not full.
C29_CapacityNullUnlimited ==
  Rendered =>
    /\ listing.event.capacity = NoValue => ~listing.meta.full /\ listing.left > 0
    /\ listing.meta.full <=> listing.left <= 0

\* C30: a null window bound is unbounded: the event page has registration
\* open iff (start null or now >= start) and (end null or now <= end), and
\* the list card reports the event closed by time only when the event page
\* has registration closed for the same event and instant.
C30_WindowNullUnbounded ==
  Rendered =>
    /\ listing.meta.registrationOpen <=>
         /\ (listing.event.registration_start_date = NoValue
               \/ listing.now >= listing.event.registration_start_date)
         /\ (listing.event.registration_end_date = NoValue
               \/ listing.now <= listing.event.registration_end_date)
    /\ ~listing.timeOk => ~listing.meta.registrationOpen

====
